---- MODULE Spec2Model ----
(***************************************************************************)
(* A model of src/.internal/baseClone.js: the recursive clone procedure    *)
(* baseClone with its traversal registry (the Stack), its per-tag shell    *)
(* initialisers and its customizer hook.                                   *)
(*                                                                         *)
(* The value graph lives in `heap` (a sequence of objects; an object's     *)
(* identity is its index).  One activation of baseClone is one frame of    *)
(* `frames`; an activation advances through the positions                  *)
(*   "customize" (lines 189-196), "classify" (197-242),                    *)
(*   "stack" (243-251) and "populate" (253-302),                           *)
(* and a return assigns the returned value into the caller's shell, as the *)
(* expressions result.set(key, baseClone(...)), result.add(baseClone(...)) *)
(* and assignValue(result, key, baseClone(...)) do.                        *)
(***************************************************************************)
EXTENDS Integers, Sequences, FiniteSets, TLC

----------------------------------------------------------------------------
(* Bounds of the model. *)

\* The most children (properties, elements, entries) of the root object.
MaxKids == 2
\* The largest lastIndex a pattern object starts with.
MaxLastIndex == 1
\* The deepest call stack the model follows (the code's own limit is the
\* host's call stack); no run of baseClone on the graphs below reaches it.
MaxDepth == 6

\* The original objects of the graph: a root, a middle node and a far node.
Nodes == {1, 2, 3}

----------------------------------------------------------------------------
(* Program constants. *)

CLONE_DEEP_FLAG == 1
CLONE_FLAT_FLAG == 2
CLONE_SYMBOLS_FLAG == 4

argsTag == "[object Arguments]"
arrayTag == "[object Array]"
boolTag == "[object Boolean]"
dateTag == "[object Date]"
errorTag == "[object Error]"
mapTag == "[object Map]"
numberTag == "[object Number]"
objectTag == "[object Object]"
regexpTag == "[object RegExp]"
setTag == "[object Set]"
stringTag == "[object String]"
symbolTag == "[object Symbol]"
weakMapTag == "[object WeakMap]"
arrayBufferTag == "[object ArrayBuffer]"
dataViewTag == "[object DataView]"
float32Tag == "[object Float32Array]"
float64Tag == "[object Float64Array]"
int8Tag == "[object Int8Array]"
int16Tag == "[object Int16Array]"
int32Tag == "[object Int32Array]"
uint8Tag == "[object Uint8Array]"
uint8ClampedTag == "[object Uint8ClampedArray]"
uint16Tag == "[object Uint16Array]"
uint32Tag == "[object Uint32Array]"

\* Tags the source names nowhere: a function's tag, and one example of a
\* tag that cloneableTags does not list at all.
funcTag == "[object Function]"
promiseTag == "[object Promise]"
\* A Node.js Buffer: its tag is uint8Tag, and isBuffer is true of it.
bufferKind == "Buffer"

typedArrayTags ==
  {float32Tag, float64Tag, int8Tag, int16Tag, int32Tag,
   uint8Tag, uint8ClampedTag, uint16Tag, uint32Tag}

\* cloneableTags[tag] is true for exactly these tags; it is false for
\* errorTag and weakMapTag and undefined (falsy) for every other tag.
cloneableTags ==
  {argsTag, arrayTag, arrayBufferTag, dataViewTag, boolTag, dateTag,
   mapTag, numberTag, objectTag, regexpTag, setTag, stringTag, symbolTag}
  \cup typedArrayTags

----------------------------------------------------------------------------
(* Values and objects. *)

\* A value is a primitive or a reference to an object of the heap.
Prim(n) == [ref |-> FALSE, v |-> n]
Ref(i) == [ref |-> TRUE, v |-> i]
Undefined == [ref |-> FALSE, v |-> -1]

\* isObject(value): the value is an object (or function), not a primitive.
isObject(value) == value.ref

\* One child of an object: a property (key, whether the key is a symbol,
\* whether it is inherited through the prototype), an array element (key =
\* index), a Map entry (key = any value) or a Set element (key = the
\* element).
Entry(key, sym, inh, val) == [key |-> key, sym |-> sym, inh |-> inh, val |-> val]

\* An object: kind is its tag (bufferKind for a Buffer), kids its children,
\* proto the identity of its prototype (0: Object.prototype), payload the
\* primitive content (a wrapper's value, a pattern's source and flags, a
\* buffer's bytes), lastIndex a pattern's cursor, store the identity of the
\* backing storage of a buffer or view.
Obj(kind, kids, proto, payload, lastIndex, store) ==
  [kind |-> kind, kids |-> kids, proto |-> proto, payload |-> payload,
   lastIndex |-> lastIndex, store |-> store]

EmptyObject == Obj(objectTag, <<>>, 0, 0, 0, 0)

getTag(o) == IF o.kind = bufferKind THEN uint8Tag ELSE o.kind
isArray(o) == o.kind = arrayTag
isBuffer(o) == o.kind = bufferKind
isFunction(o) == o.kind = funcTag
isTypedArray(o) == getTag(o) \in typedArrayTags

\* bitmask & flag
HasFlag(bitmask, flag) == (bitmask \div flag) % 2 = 1

----------------------------------------------------------------------------
(* State. *)

VARIABLES
  heap,      \* the objects; the originals are heap[1..3], shells come after
  frames,    \* the activations of baseClone, the innermost last
  stack,     \* the traversal registry: pairs <<original, clone>>
  input,     \* the arguments of the top-level call
  pc,        \* "idle" before the call, "running" in it, "done" after it
  out,       \* what the top-level call returned
  regexpKeepsLastIndex, \* whether cloneRegExp copies lastIndex (see cloneRegExp)
  hist       \* per original object, what baseClone did with it so far

vars == <<heap, frames, stack, input, pc, out, regexpKeepsLastIndex, hist>>

----------------------------------------------------------------------------
(* Collaborators: property enumeration and assignment. *)

\* keys(object): the own string keys.
keys(o) == SelectSeq(o.kids, LAMBDA e : ~e.sym /\ ~e.inh)
\* keysIn(object): the own and inherited string keys.
keysIn(o) == SelectSeq(o.kids, LAMBDA e : ~e.sym)
getSymbols(o) == SelectSeq(o.kids, LAMBDA e : e.sym /\ ~e.inh)
getSymbolsIn(o) == SelectSeq(o.kids, LAMBDA e : e.sym)
\* getAllKeys(object): own string keys, then own symbols.
getAllKeys(o) == keys(o) \o getSymbols(o)
\* getAllKeysIn(object): own and inherited string keys, then symbols.
getAllKeysIn(o) == keysIn(o) \o getSymbolsIn(o)

\* The position of the own property (key, sym) of o, or 0.
OwnIndex(o, key, sym) ==
  LET hits == {i \in 1..Len(o.kids) :
                 o.kids[i].key = key /\ o.kids[i].sym = sym /\ ~o.kids[i].inh}
  IN IF hits = {} THEN 0 ELSE CHOOSE i \in hits : TRUE

\* assignValue(object, key, value): object[key] = value, an own property.
assignValue(o, key, sym, value) ==
  LET i == OwnIndex(o, key, sym)
  IN IF i = 0
     THEN [o EXCEPT !.kids = Append(@, Entry(key, sym, FALSE, value))]
     ELSE [o EXCEPT !.kids[i].val = value]

\* copyObject(source, props, object): object[key] = source[key] for each key.
RECURSIVE copyObject(_, _, _)
copyObject(source, props, object) ==
  IF props = <<>> THEN object
  ELSE copyObject(source, Tail(props),
         assignValue(object, Head(props).key, Head(props).sym, Head(props).val))

\* Object.assign(target, source): every own enumerable property, string
\* keyed and symbol keyed.
ObjectAssign(target, source) == copyObject(source, getAllKeys(source), target)
\* copySymbols(source, object): the own symbols of source.
copySymbols(source, object) == copyObject(source, getSymbols(source), object)
\* copySymbolsIn(source, object): the own and inherited symbols of source.
copySymbolsIn(source, object) == copyObject(source, getSymbolsIn(source), object)

\* copyArray(source, array): array[index] = source[index] for every index.
copyArray(source, array) ==
  [array EXCEPT !.kids = [j \in 1..Len(source.kids) |->
      Entry(source.kids[j].key, FALSE, FALSE, source.kids[j].val)]]

\* Map.prototype.set: replaces the entry of an existing key, else appends.
MapSet(o, key, value) ==
  LET hits == {i \in 1..Len(o.kids) : o.kids[i].key = key}
  IN IF hits = {}
     THEN [o EXCEPT !.kids = Append(@, Entry(key, FALSE, FALSE, value))]
     ELSE [o EXCEPT !.kids[CHOOSE i \in hits : TRUE].val = value]

\* Set.prototype.add: appends the element unless the set holds it already.
SetAdd(o, value) ==
  IF \E i \in 1..Len(o.kids) : o.kids[i].val = value
  THEN o
  ELSE [o EXCEPT !.kids = Append(@, Entry(value, FALSE, FALSE, value))]

----------------------------------------------------------------------------
(* Collaborators: the Stack. *)

\* stack.get(key): the stored clone, or undefined.
StackGet(stk, key) ==
  LET hits == {i \in 1..Len(stk) : stk[i][1] = key}
  IN IF hits = {} THEN Undefined ELSE Ref(stk[CHOOSE i \in hits : TRUE][2])

\* stack.set(key, value): replaces the pair of an existing key, else appends.
StackSet(stk, key, value) ==
  LET hits == {i \in 1..Len(stk) : stk[i][1] = key}
  IN IF hits = {} THEN Append(stk, <<key, value>>)
     ELSE [stk EXCEPT ![CHOOSE i \in hits : TRUE] = <<key, value>>]

StackKeys(stk) == {stk[i][1] : i \in 1..Len(stk)}

----------------------------------------------------------------------------
(* Shell initialisers. *)

\* initCloneObject(object): a structure with the prototype of the original
\* (and so what it inherits) and no own properties.
initCloneObject(o) ==
  Obj(objectTag, SelectSeq(o.kids, LAMBDA e : e.inh), o.proto, 0, 0, 0)

\* initCloneArray(array): new array.constructor(length), its elements
\* holes; payload > 0 stands for "array[0] is a string and array has an own
\* index property" (the output of RegExp#exec), whose index and input are
\* then copied.
initCloneArray(array) ==
  Obj(arrayTag,
      [j \in 1..Len(array.kids) |->
         Entry(array.kids[j].key, FALSE, FALSE, Undefined)],
      array.proto,
      IF Len(array.kids) > 0 /\ array.payload > 0 THEN array.payload ELSE 0,
      0, 0)

\* cloneBuffer(buffer, isDeep): a new Buffer either way; a copy of the
\* bytes when deep, a view over the same memory when not.
cloneBuffer(buffer, isDeep, new) ==
  Obj(bufferKind, <<>>, buffer.proto, buffer.payload, 0,
      IF isDeep THEN new ELSE buffer.store)

\* cloneArrayBuffer(arrayBuffer): a new buffer with a copy of the bytes.
cloneArrayBuffer(o, new) == Obj(o.kind, <<>>, o.proto, o.payload, 0, new)
\* cloneDataView(dataView, isDeep), cloneTypedArray(typedArray, isDeep): a
\* new view, over a copy of the buffer when deep, over the same buffer when
\* not.
cloneDataView(o, isDeep, new) ==
  Obj(o.kind, <<>>, o.proto, o.payload, 0, IF isDeep THEN new ELSE o.store)
cloneTypedArray(o, isDeep, new) ==
  Obj(o.kind, <<>>, o.proto, o.payload, 0, IF isDeep THEN new ELSE o.store)
\* cloneSymbol(symbol): Object(symbolValueOf.call(symbol)).
cloneSymbol(o) == Obj(o.kind, <<>>, o.proto, o.payload, 0, 0)
\* new Ctor(+object), new Ctor(object), new Ctor().
NewCtor(o, payload) == Obj(o.kind, <<>>, o.proto, payload, 0, 0)

\* cloneRegExp(regexp): a new pattern object from the source text and the
\* flags.  baseClone gives it the pattern alone, so what it does with
\* lastIndex cannot depend on the Deep flag; whether it copies lastIndex or
\* leaves the default 0 is left open (regexpKeepsLastIndex).
cloneRegExp(regexp) ==
  Obj(regexpTag, <<>>, regexp.proto, regexp.payload,
      IF regexpKeepsLastIndex THEN regexp.lastIndex ELSE 0, 0)

\* initCloneByTag with a pattern shell whose lastIndex follows isDeep.
initCloneByTag_regexpByDeep(object, tag, isDeep, new) ==
  CASE tag = arrayBufferTag -> cloneArrayBuffer(object, new)
    [] tag \in {boolTag, dateTag} -> NewCtor(object, object.payload)
    [] tag = dataViewTag -> cloneDataView(object, isDeep, new)
    [] tag \in typedArrayTags -> cloneTypedArray(object, isDeep, new)
    [] tag = mapTag -> NewCtor(object, 0)
    [] tag \in {numberTag, stringTag} -> NewCtor(object, object.payload)
    [] tag = regexpTag ->
         [cloneRegExp(object) EXCEPT
            !.lastIndex = IF isDeep THEN object.lastIndex ELSE 0]
    [] tag = setTag -> NewCtor(object, 0)
    [] tag = symbolTag -> cloneSymbol(object)

initCloneByTag(object, tag, isDeep, new) ==
  CASE tag = arrayBufferTag -> cloneArrayBuffer(object, new)
    [] tag \in {boolTag, dateTag} -> NewCtor(object, object.payload)
    [] tag = dataViewTag -> cloneDataView(object, isDeep, new)
    [] tag \in typedArrayTags -> cloneTypedArray(object, isDeep, new)
    [] tag = mapTag -> NewCtor(object, 0)
    [] tag \in {numberTag, stringTag} -> NewCtor(object, object.payload)
    [] tag = regexpTag -> cloneRegExp(object)
    [] tag = setTag -> NewCtor(object, 0)
    [] tag = symbolTag -> cloneSymbol(object)

----------------------------------------------------------------------------
(* The graphs baseClone is run on. *)

Values == {Prim(7)} \cup {Ref(i) : i \in Nodes}
ValSeqs(n) == UNION {[1..k -> Values] : k \in 0..n}
\* The root holds primitives, itself and the object 2; the object 3 is
\* reached through the object 2.
RootSeqs(n) == UNION {[1..k -> {Prim(7), Ref(1), Ref(2)}] : k \in 0..n}
Distinct(vs) == \A i, j \in 1..Len(vs) : vs[i] = vs[j] => i = j

\* Properties and elements: the j-th has the key (or index) j.
PlainKids(vs) == [j \in 1..Len(vs) |-> Entry(Prim(j), FALSE, FALSE, vs[j])]
MapKids(ks, vs) == [j \in 1..Len(vs) |-> Entry(ks[j], FALSE, FALSE, vs[j])]
SetKids(vs) == [j \in 1..Len(vs) |-> Entry(vs[j], FALSE, FALSE, vs[j])]
\* Properties of every class: own or inherited, string or symbol keyed.
ClassKids(cs, vs) ==
  [j \in 1..Len(vs) |-> Entry(Prim(j), cs[j][1], cs[j][2], vs[j])]

\* The keys of a Map's entries: the j-th is the primitive j, or, for the
\* first, the object 2.
MapKeys(n) ==
  {ks \in [1..n -> {Prim(j) : j \in 1..n} \cup {Ref(2)}] :
     \A j \in 1..n : ks[j] = Prim(j) \/ (j = 1 /\ ks[j] = Ref(2))}

Node(id, kind, kids) ==
  Obj(kind, kids, IF \E j \in 1..Len(kids) : kids[j].inh THEN 1 ELSE 0,
      IF kind = arrayTag THEN 0 ELSE 5, 0, id)

LeafKinds ==
  {regexpTag, numberTag, uint8Tag, arrayBufferTag, dataViewTag, errorTag,
   weakMapTag, bufferKind, promiseTag}

Leaves(id, kinds) ==
  {[Node(id, k, <<>>) EXCEPT !.lastIndex = li] :
     k \in kinds \ {regexpTag}, li \in {0}}
  \cup {[Node(id, k, <<>>) EXCEPT !.lastIndex = li] :
     k \in kinds \cap {regexpTag}, li \in 0..MaxLastIndex}

RootShapes ==
  {Node(1, k, PlainKids(vs)) :
     k \in {objectTag, funcTag, arrayTag}, vs \in RootSeqs(MaxKids)}
  \cup {[Node(1, arrayTag, PlainKids([j \in 1..n |-> Prim(7)])) EXCEPT !.payload = 5] :
     n \in 1..MaxKids}
  \cup {Node(1, setTag, SetKids(vs)) :
     vs \in {w \in RootSeqs(MaxKids) : Distinct(w)}}
  \cup UNION {{Node(1, mapTag, MapKids(ks, vs)) : ks \in MapKeys(Len(vs))} :
     vs \in RootSeqs(MaxKids)}
  \cup Leaves(1, LeafKinds)

MidShapes ==
  {Node(2, k, PlainKids(vs)) :
     k \in {objectTag, arrayTag, mapTag}, vs \in ValSeqs(1)}
  \cup {Node(2, setTag, SetKids(vs)) : vs \in ValSeqs(1)}
  \cup Leaves(2, {regexpTag, errorTag, funcTag, bufferKind, uint8Tag})

FarShapes ==
  {Node(3, objectTag, PlainKids(vs)) : vs \in {<<>>, <<Ref(1)>>}}

\* Graphs of every kind of object, their properties own and string keyed.
ShapeGraphs == {<<a, b, c>> : a \in RootShapes, b \in MidShapes, c \in FarShapes}

KeyClasses == {<<FALSE, FALSE>>, <<FALSE, TRUE>>, <<TRUE, FALSE>>, <<TRUE, TRUE>>}

\* Graphs whose root is a plain structure with properties of every class.
KeyRoots ==
  UNION {{Node(1, k, ClassKids(cs, vs)) :
            k \in {objectTag, argsTag, funcTag},
            cs \in [1..n -> KeyClasses],
            vs \in [1..n -> {Prim(7), Ref(2)}]} : n \in 0..MaxKids}

KeyGraphs ==
  {<<a, b, Node(3, objectTag, <<>>)>> :
     a \in KeyRoots,
     b \in {Node(2, objectTag, PlainKids(<<Prim(7)>>)), Node(2, errorTag, <<>>)}}

\* The graphs a customizer is tried on.
CustomGraphs ==
  {h \in ShapeGraphs :
     /\ h[1].kind \in {objectTag, mapTag, setTag}
     /\ \A j \in 1..Len(h[1].kids) : ~h[1].kids[j].key.ref
     /\ h[2].kind \in {objectTag, errorTag}
     /\ h[3].kids = <<>>}

HasRegExp(h) == \E i \in Nodes : h[i].kind = regexpTag

\* A customizer: it replaces the value `target` by `repl` and has no opinion
\* (undefined) on every other value.
NoCustomizer == [present |-> FALSE, target |-> Undefined, repl |-> Undefined]
Customizers ==
  {NoCustomizer}
  \cup {[present |-> TRUE, target |-> Undefined, repl |-> Undefined]}
  \cup {[present |-> TRUE, target |-> t, repl |-> r] :
          t \in {Prim(7), Ref(1), Ref(2)}, r \in {Prim(0), Ref(3)}}

\* The calls made on a graph: the symbol and flatten bits vary on the graphs
\* with properties of every class, a customizer is given on CustomGraphs,
\* and a primitive is cloned once.
Admissible(h, value, bitmask, customizer) ==
  /\ bitmask \in {0, CLONE_DEEP_FLAG} \/ (h \in KeyGraphs /\ ~customizer.present)
  /\ customizer.present => h \in CustomGraphs
  /\ value = Ref(1) \/ (h[1] = Node(1, objectTag, <<>>) /\ h[2].kids = <<>>
                         /\ h[3].kids = <<>>)

NoHist ==
  [n \in Nodes |->
     [calls |-> 0, cust |-> 0, shells |-> 0, sets |-> 0, hits |-> 0,
      back |-> 0, visits |-> 0, rets |-> {}]]

Init ==
  /\ heap \in ShapeGraphs \cup KeyGraphs
  /\ regexpKeepsLastIndex \in (IF HasRegExp(heap) THEN BOOLEAN ELSE {TRUE})
  /\ frames = <<>>
  /\ stack = <<>>
  /\ input = [value |-> Undefined, bitmask |-> 0, customizer |-> NoCustomizer]
  /\ pc = "idle"
  /\ out = Undefined
  /\ hist = NoHist

----------------------------------------------------------------------------
(* baseClone. *)

Frame(value, key, object) ==
  [value |-> value, key |-> key, object |-> object, result |-> Undefined,
   pc |-> "customize", idx |-> 1]

Top == frames[Len(frames)]
isDeep == HasFlag(input.bitmask, CLONE_DEEP_FLAG)
isFlat == HasFlag(input.bitmask, CLONE_FLAT_FLAG)
isFull == HasFlag(input.bitmask, CLONE_SYMBOLS_FLAG)

\* hist[value][field] + 1, for an object.
Bump(hs, value, field) ==
  IF value.ref THEN [hs EXCEPT ![value.v][field] = @ + 1] ELSE hs

\* Lines 189-192: result = customizer(value, ...) when a customizer is
\* given, undefined otherwise.
customized_ignoresCustomizer(customizer, value) == Undefined

customized(customizer, value) ==
  IF customizer.present /\ customizer.target = value
  THEN customizer.repl
  ELSE Undefined

\* Lines 278-285: the key enumeration the flags select.
keysFunc(o, bitmask) ==
  IF HasFlag(bitmask, CLONE_SYMBOLS_FLAG)
  THEN IF HasFlag(bitmask, CLONE_FLAT_FLAG) THEN getAllKeysIn(o) ELSE getAllKeys(o)
  ELSE IF HasFlag(bitmask, CLONE_FLAT_FLAG) THEN keysIn(o) ELSE keys(o)

\* Lines 253-301: the children baseClone is called on, in order: the
\* entries of a Map, the elements of a Set, none for a typed array, the
\* elements of an array, the properties keysFunc gives for the rest.
Children(o, bitmask) ==
  IF getTag(o) = mapTag THEN o.kids
  ELSE IF getTag(o) = setTag THEN o.kids
  ELSE IF isTypedArray(o) THEN <<>>
  ELSE IF isArray(o) THEN o.kids
  ELSE keysFunc(o, bitmask)

\* Lines 201-242: what baseClone does with an object before it looks at the
\* registry.  act = "return": it returns at once, the new object `shell`
\* when fresh, the value itself when not; act = "continue": it goes on to
\* the registry with `shell` as result.
\* Lines 207-214: the shell of an array; a shallow clone is this shell with
\* the elements copied into it.
arrayResult_alwaysShallow(o, deep) ==
  [act |-> "return", fresh |-> TRUE, shell |-> copyArray(o, initCloneArray(o))]

arrayResult(o, deep) ==
  IF ~deep
  THEN [act |-> "return", fresh |-> TRUE,
        shell |-> copyArray(o, initCloneArray(o))]
  ELSE [act |-> "continue", fresh |-> TRUE, shell |-> initCloneArray(o)]

\* Lines 235-238: a function with a parent, or a value whose tag is not
\* cloneable, is returned as it is under a parent and is an empty structure
\* without one.
opaqueResult_alwaysEmpty(o, hasParent) ==
  [act |-> "return", fresh |-> TRUE, shell |-> EmptyObject]

opaqueResult(o, hasParent) ==
  IF hasParent
  THEN [act |-> "return", fresh |-> FALSE, shell |-> o]
  ELSE [act |-> "return", fresh |-> TRUE, shell |-> EmptyObject]

\* Lines 224-233: the shell of a plain structure; a shallow clone is this
\* shell with the properties copied into it.
plainResult(o, deep, flat) ==
  LET result == IF flat \/ isFunction(o) THEN EmptyObject ELSE initCloneObject(o)
  IN IF ~deep
     THEN [act |-> "return", fresh |-> TRUE,
           shell |-> IF flat
                     THEN copySymbolsIn(o, copyObject(o, keysIn(o), result))
                     ELSE copySymbols(o, ObjectAssign(result, o))]
     ELSE [act |-> "continue", fresh |-> TRUE, shell |-> result]

classify(o, hasParent, bitmask, new) ==
  LET deep == HasFlag(bitmask, CLONE_DEEP_FLAG)
      flat == HasFlag(bitmask, CLONE_FLAT_FLAG)
      tag == getTag(o)
      isFunc == isFunction(o)
  IN IF isArray(o) THEN arrayResult(o, deep)
     ELSE IF isBuffer(o)
     THEN [act |-> "return", fresh |-> TRUE, shell |-> cloneBuffer(o, deep, new)]
     ELSE IF tag = objectTag \/ tag = argsTag \/ (isFunc /\ ~hasParent)
     THEN plainResult(o, deep, flat)
     ELSE IF isFunc \/ tag \notin cloneableTags
     THEN opaqueResult(o, hasParent)
     ELSE [act |-> "continue", fresh |-> TRUE,
           shell |-> initCloneByTag(o, tag, deep, new)]

\* `return v` of the innermost activation, with heap h and history hs: the
\* top-level call ends, or the caller assigns v into its shell (lines
\* 256-259, 266-268, 296-300) and moves to its next child.
Return(h, hs, v) ==
  LET f == Top
      rest == SubSeq(frames, 1, Len(frames) - 1)
  IN IF rest = <<>>
     THEN /\ frames' = rest
          /\ heap' = h
          /\ hist' = hs
          /\ out' = v
          /\ pc' = "done"
     ELSE LET p == rest[Len(rest)]
              po == h[p.value.v]
              e == Children(po, input.bitmask)[p.idx]
              shell == h[p.result.v]
              filled == IF getTag(po) = mapTag THEN MapSet(shell, e.key, v)
                        ELSE IF getTag(po) = setTag THEN SetAdd(shell, v)
                        ELSE assignValue(shell, e.key, e.sym, v)
          IN /\ frames' = [rest EXCEPT ![Len(rest)].idx = @ + 1]
             /\ heap' = [h EXCEPT ![p.result.v] = filled]
             /\ hist' = IF f.value.ref
                        THEN [hs EXCEPT ![f.value.v].rets = @ \cup {v}]
                        ELSE hs
             /\ UNCHANGED <<out, pc>>

\* The top-level call baseClone(value, bitmask, customizer).
CloneCall ==
  /\ pc = "idle"
  /\ \E value \in {Ref(1), Prim(7)}, bitmask \in 0..7, customizer \in Customizers :
       /\ Admissible(heap, value, bitmask, customizer)
       /\ input' = [value |-> value, bitmask |-> bitmask, customizer |-> customizer]
       /\ frames' = <<Frame(value, Undefined, Undefined)>>
       /\ hist' = Bump(hist, value, "calls")
  /\ pc' = "running"
  /\ UNCHANGED <<heap, stack, out, regexpKeepsLastIndex>>

\* Lines 189-196: the customizer is asked; a result other than undefined is
\* returned as it is.
Customize ==
  /\ pc = "running"
  /\ Top.pc = "customize"
  /\ LET f == Top
         result == customized(input.customizer, f.value)
         hs == IF input.customizer.present THEN Bump(hist, f.value, "cust") ELSE hist
     IN IF result # Undefined
        THEN Return(heap, hs, result)
        ELSE /\ frames' = [frames EXCEPT ![Len(frames)].pc = "classify"]
             /\ hist' = hs
             /\ UNCHANGED <<heap, out, pc>>
  /\ UNCHANGED <<stack, input, regexpKeepsLastIndex>>

\* Lines 197-242: a primitive is returned as it is; an object is classified
\* and its shell built, and the shallow and the opaque cases return.
Classify ==
  /\ pc = "running"
  /\ Top.pc = "classify"
  /\ LET f == Top
         new == Len(heap) + 1
     IN IF ~isObject(f.value)
        THEN Return(heap, hist, f.value)
        ELSE LET c == classify(heap[f.value.v], f.object # Undefined,
                               input.bitmask, new)
                 hs == IF c.fresh THEN Bump(hist, f.value, "shells") ELSE hist
             IN IF c.act = "return"
                THEN IF c.fresh
                     THEN Return(Append(heap, c.shell), hs, Ref(new))
                     ELSE Return(heap, hs, f.value)
                ELSE /\ heap' = Append(heap, c.shell)
                     /\ frames' = [frames EXCEPT ![Len(frames)].pc = "stack",
                                                 ![Len(frames)].result = Ref(new)]
                     /\ hist' = hs
                     /\ UNCHANGED <<out, pc>>
  /\ UNCHANGED <<stack, input, regexpKeepsLastIndex>>

\* Line 248: if (stacked), whether the registry held the value.
isStacked_never(stacked) == FALSE

isStacked(stacked) == stacked # Undefined

\* Lines 248-250: what a call on a value the registry holds returns.
stackHit_returnsNewShell(stacked, result) == result

stackHit(stacked, result) == stacked

\* Lines 243-251: a value the registry holds already returns the stored
\* clone; any other is stored with its shell.
CheckStack ==
  /\ pc = "running"
  /\ Top.pc = "stack"
  /\ LET f == Top
         stacked == StackGet(stack, f.value.v)
         onPath == \E i \in 1..(Len(frames) - 1) : frames[i].value = f.value
     IN IF isStacked(stacked)
        THEN /\ Return(heap,
                       IF onPath
                       THEN Bump(Bump(hist, f.value, "hits"), f.value, "back")
                       ELSE Bump(hist, f.value, "hits"),
                       stackHit(stacked, f.result))
             /\ UNCHANGED stack
        ELSE /\ stack' = StackSet(stack, f.value.v, f.result.v)
             /\ frames' = [frames EXCEPT ![Len(frames)].pc = "populate"]
             /\ hist' = Bump(hist, f.value, "sets")
             /\ UNCHANGED <<heap, out, pc>>
  /\ UNCHANGED <<input, regexpKeepsLastIndex>>

\* The next child of the innermost activation is cloned (a call of
\* baseClone with key, parent and the same registry), or, past the last
\* child, result is returned.  A Set passes the element itself as the key
\* (line 267).
Visit(keyIsValue) ==
  LET f == Top
      list == Children(heap[f.value.v], input.bitmask)
  IN IF f.idx > Len(list)
     THEN Return(heap, hist, f.result)
     ELSE /\ Len(frames) < MaxDepth
          /\ frames' = Append(frames,
                         Frame(list[f.idx].val,
                               IF keyIsValue THEN list[f.idx].val
                                             ELSE list[f.idx].key,
                               f.value))
          /\ hist' = Bump(Bump(hist, f.value, "visits"), list[f.idx].val, "calls")
          /\ UNCHANGED <<heap, out, pc>>

\* Lines 253-262: value.forEach over a Map.
MapForEach ==
  /\ pc = "running"
  /\ Top.pc = "populate"
  /\ getTag(heap[Top.value.v]) = mapTag
  /\ Visit(FALSE)
  /\ UNCHANGED <<stack, input, regexpKeepsLastIndex>>

\* Lines 264-271: value.forEach over a Set.
SetForEach ==
  /\ pc = "running"
  /\ Top.pc = "populate"
  /\ getTag(heap[Top.value.v]) = setTag
  /\ Visit(TRUE)
  /\ UNCHANGED <<stack, input, regexpKeepsLastIndex>>

\* Lines 273-276: a typed array is complete as initCloneByTag built it.
TypedArrayReturn ==
  /\ pc = "running"
  /\ Top.pc = "populate"
  /\ getTag(heap[Top.value.v]) \notin {mapTag, setTag}
  /\ isTypedArray(heap[Top.value.v])
  /\ Return(heap, hist, Top.result)
  /\ UNCHANGED <<stack, input, regexpKeepsLastIndex>>

\* Lines 278-302: arrayEach over the elements of an array or over the keys
\* keysFunc gives.
ArrayEach ==
  /\ pc = "running"
  /\ Top.pc = "populate"
  /\ getTag(heap[Top.value.v]) \notin {mapTag, setTag}
  /\ ~isTypedArray(heap[Top.value.v])
  /\ Visit(FALSE)
  /\ UNCHANGED <<stack, input, regexpKeepsLastIndex>>

Next ==
  \/ CloneCall
  \/ Customize
  \/ Classify
  \/ CheckStack
  \/ MapForEach
  \/ SetForEach
  \/ TypedArrayReturn
  \/ ArrayEach

Spec == Init /\ [][Next]_vars

----------------------------------------------------------------------------
(* Vocabulary of the properties. *)

Done == pc = "done"
NoCust == ~input.customizer.present
RootIsObject == input.value = Ref(1)
Registered(n) == n \in StackKeys(stack)
CloneOf(n) == StackGet(stack, n).v

IsContainer(o) == o.kind \in {objectTag, argsTag, arrayTag, mapTag, setTag}
\* A value baseClone never reconstructs when it has a parent.
IsOpaque(o) ==
  /\ ~isArray(o)
  /\ ~isBuffer(o)
  /\ isFunction(o) \/ getTag(o) \notin cloneableTags \cup {objectTag, argsTag}

\* The children baseClone visits from the original n.
Kids(n) == Children(heap[n], input.bitmask)

\* What the object c holds where the original p holds its child e, the j-th
\* it enumerates: the value under the same key, or the j-th element of a
\* Set; undefined when c has no such child.
ValAt(c, p, e, j) ==
  IF getTag(p) = mapTag
  THEN LET hits == {i \in 1..Len(c.kids) : c.kids[i].key = e.key}
       IN IF hits = {} THEN Undefined ELSE c.kids[CHOOSE i \in hits : TRUE].val
  ELSE IF getTag(p) = setTag
  THEN IF j <= Len(c.kids) THEN c.kids[j].val ELSE Undefined
  ELSE LET i == OwnIndex(c, e.key, e.sym)
       IN IF i = 0 THEN Undefined ELSE c.kids[i].val

\* The objects an object holds as own properties, elements, entry values
\* and Set elements, and as Map keys too when byKeys.
Successors(h, i, byKeys) ==
  {h[i].kids[j].val.v :
     j \in {k \in 1..Len(h[i].kids) : h[i].kids[k].val.ref /\ ~h[i].kids[k].inh}}
  \cup {h[i].kids[j].key.v :
     j \in {k \in 1..Len(h[i].kids) :
              byKeys /\ h[i].kind = mapTag /\ h[i].kids[k].key.ref}}

\* The objects reached from the objects S; the search does not go on from
\* the objects of `stop`.
RECURSIVE ReachFrom(_, _, _, _)
ReachFrom(h, S, byKeys, stop) ==
  LET T == S \cup UNION {Successors(h, i, byKeys) : i \in S \ stop}
  IN IF T = S THEN S ELSE ReachFrom(h, T, byKeys, stop)

\* The number of edges of the original graph that lead to n.
InDegree(n) ==
  Cardinality(UNION {{<<p, j>> : j \in {k \in 1..Len(Kids(p)) :
                                             Kids(p)[k].val = Ref(n)}} :
                       p \in Nodes})

\* What the clone of the original p holds at the place of the child v: the
\* clone the registry stores for v, or v itself when v is a primitive or is
\* shared by reference.
CloneVal(v) ==
  IF v.ref /\ Registered(v.v) /\ ~isFunction(heap[v.v]) THEN Ref(CloneOf(v.v)) ELSE v

\* The customizer has no opinion on the object n.
Declines(n) == customized(input.customizer, Ref(n)) = Undefined

\* The activations on the object n that stand at the position where.
Standing(n, where) ==
  Cardinality({i \in 1..Len(frames) :
                 frames[i].value = Ref(n) /\ frames[i].pc = where})

OwnKeys(o) ==
  {<<o.kids[j].key, o.kids[j].sym>> : j \in {k \in 1..Len(o.kids) : ~o.kids[k].inh}}

----------------------------------------------------------------------------
(* The claims. *)

C2_SharedEdgesConverge ==
  (Done /\ isDeep /\ NoCust) =>
    \A p1, p2 \in Nodes : (Registered(p1) /\ Registered(p2)) =>
      \A j1 \in 1..Len(Kids(p1)), j2 \in 1..Len(Kids(p2)) :
        LET e1 == Kids(p1)[j1]
            e2 == Kids(p2)[j2]
        IN (e1.val.ref /\ e1.val = e2.val) =>
             ValAt(heap[CloneOf(p1)], heap[p1], e1, j1)
               = ValAt(heap[CloneOf(p2)], heap[p2], e2, j2)

C4_ShallowSharesChildren ==
  (Done /\ ~isDeep /\ NoCust /\ RootIsObject
     /\ ~IsOpaque(heap[1]) /\ ~isFunction(heap[1])) =>
    /\ out.ref /\ out.v \notin Nodes
    /\ \A j \in 1..Len(heap[1].kids) :
         LET e == heap[1].kids[j]
         IN ~e.inh => ValAt(heap[out.v], heap[1], e, j) = e.val

\* C5: a customizer's replacement for an object is returned as it is: no
\* shell is built for the object, none of its children is visited, the
\* registry is neither asked for it nor given it, and every call on it ends
\* at the customizer.
C5_CustomizerShortCircuits ==
  \A n \in Nodes :
    (input.customizer.present /\ input.customizer.target = Ref(n)
       /\ input.customizer.repl # Undefined) =>
      /\ hist[n].shells = 0 /\ hist[n].visits = 0
      /\ hist[n].sets = 0 /\ hist[n].hits = 0 /\ ~Registered(n)
      /\ hist[n].rets \subseteq {input.customizer.repl}
      /\ hist[n].cust + Standing(n, "customize") = hist[n].calls
      /\ \A i \in 1..Len(frames) :
           frames[i].value = Ref(n) => frames[i].pc = "customize"
      /\ (Done /\ n = 1 /\ RootIsObject) => out = input.customizer.repl

\* The customizer replaced the object 2, whose child 3 was never called on.
C5_Witness ==
  /\ Done /\ isDeep
  /\ input.customizer.present /\ input.customizer.target = Ref(2)
  /\ hist[2].cust > 0 /\ Len(heap[2].kids) > 0 /\ heap[2].kids[1].val = Ref(3)
  /\ hist[3].calls = 0

\* C6: a value whose tag is not cloneable, or a function under a parent, is
\* never reconstructed (unless a customizer replaces it): every call on it
\* under a parent returns the value itself, without a shell, a registry
\* entry or a visit of its children, and the clone of the parent holds the
\* original reference; as the root, a value whose tag is not cloneable gives
\* a new empty structure.
C6_OpaqueIsSharedOrEmpty ==
  /\ \A n \in Nodes : (IsOpaque(heap[n]) /\ Declines(n)) =>
       /\ hist[n].rets \subseteq {Ref(n)}
       /\ (n # 1 \/ ~isFunction(heap[n])) =>
            (hist[n].sets = 0 /\ hist[n].visits = 0)
       /\ n # 1 => hist[n].shells = 0
       /\ (Done /\ n = 1 /\ RootIsObject /\ ~isFunction(heap[n])) =>
            /\ out.ref /\ out.v \notin Nodes
            /\ heap[out.v] = EmptyObject
  /\ Done =>
       \A p \in Nodes : Registered(p) =>
         \A j \in 1..Len(Kids(p)) :
           LET e == Kids(p)[j]
           IN (e.val.ref /\ IsOpaque(heap[e.val.v]) /\ Declines(e.val.v)) =>
                ValAt(heap[CloneOf(p)], heap[p], e, j) = e.val

\* A plain structure that holds an Error has been deep cloned.
C6_Witness ==
  /\ Done /\ isDeep /\ heap[2].kind = errorTag /\ hist[2].rets = {Ref(2)}
  /\ Registered(1) /\ heap[1].kind = objectTag

\* C7: the own keys of the clone of a plain structure are the keys of the
\* original that the flags select, in the shallow and in the deep path: an
\* inherited key only with Flatten, a symbol key only with
\* IncludeSymbolicKeys.
C7_KeysFollowFlags ==
  (Done /\ NoCust /\ RootIsObject
     /\ heap[1].kind \in {objectTag, argsTag, funcTag}) =>
    OwnKeys(heap[out.v]) =
      {<<heap[1].kids[j].key, heap[1].kids[j].sym>> :
         j \in {k \in 1..Len(heap[1].kids) :
                  /\ heap[1].kids[k].inh => isFlat
                  /\ heap[1].kids[k].sym => isFull}}

C9_RegisteredOnceBeforeChildren ==
  /\ \A n \in Nodes :
       /\ hist[n].sets <= 1
       /\ Registered(n) <=> hist[n].sets = 1
       /\ Registered(n) => CloneOf(n) \notin Nodes
       /\ hist[n].visits > 0 => Registered(n)
  /\ \A i, j \in 1..Len(stack) : stack[i][1] = stack[j][1] => i = j
  /\ \A i \in 1..Len(frames) :
       /\ frames[i].pc = "populate" =>
            StackGet(stack, frames[i].value.v) = frames[i].result
       /\ i > 1 => /\ frames[i].object = frames[i-1].value
                   /\ frames[i-1].pc = "populate"
  /\ (Done /\ RootIsObject /\ Registered(1)) => out = Ref(CloneOf(1))

\* The object 2 has children, was reached twice and was registered once.
C9_Witness ==
  /\ Done /\ hist[2].sets = 1 /\ hist[2].hits > 0 /\ hist[2].visits > 0

\* C10 as stated: the shell of a pattern object has the source and flags of
\* the original, and its lastIndex is the original's when Deep is set and 0
\* when it is not.
C10_LastIndexFollowsDeep ==
  \A n \in Nodes : (heap[n].kind = regexpTag /\ Registered(n)) =>
    LET c == heap[CloneOf(n)]
    IN /\ c.kind = regexpTag /\ c.payload = heap[n].payload
       /\ c.lastIndex = IF isDeep THEN heap[n].lastIndex ELSE 0

\* C10 as amended: the shell of a pattern object has the source and flags
\* of the original, and its lastIndex is what cloneRegExp makes of the
\* pattern alone, the same with Deep set and with Deep unset.
C10_LastIndexIgnoresDeep ==
  \A n \in Nodes : (heap[n].kind = regexpTag /\ Registered(n)) =>
    LET c == heap[CloneOf(n)]
    IN /\ c.kind = regexpTag /\ c.payload = heap[n].payload
       /\ c.lastIndex = IF regexpKeepsLastIndex THEN heap[n].lastIndex ELSE 0

\* A pattern object with a lastIndex other than 0 has been cloned, shallow.
C10_Witness ==
  /\ Done /\ ~isDeep /\ RootIsObject
  /\ heap[1].kind = regexpTag /\ heap[1].lastIndex > 0 /\ Registered(1)

====
